---- MODULE Spec2Model ----
(***************************************************************************)
(* Model of docker/campaign-volume-workspace/push.py: the tag derivation   *)
(* calculate_tags and the login / build-and-push pipeline of main.         *)
(*                                                                         *)
(* A Python str is a sequence of one-character strings, so that            *)
(* startswith, split and join are computed character by character.         *)
(* An Optional value is a sequence of length 0 (None) or 1 (the value).    *)
(***************************************************************************)
EXTENDS Integers, Sequences, FiniteSets, TLC

VARIABLES pc, argv, environ, fileExists, args, tags, trace, exc

vars == <<pc, argv, environ, fileExists, args, tags, trace, exc>>

None == <<>>
Some(v) == <<v>>
Value(o) == o[1]

(* ---- bounds ---- *)
MaxLen == 2
MaxExit == 1

(* ---- string literals of the program ---- *)
latest == <<"l", "a", "t", "e", "s", "t">>
RefsTagsPrefix == <<"r", "e", "f", "s", "/", "t", "a", "g", "s", "/">>
WillPushTags == <<"w", "i", "l", "l", " ", "p", "u", "s", "h", " ", "t", "a", "g", "s", ":", " ">>
CommaSpace == <<",", " ">>
LoggingIn == <<"l", "o", "g", "g", "i", "n", "g", " ", "i", "n", "t", "o", " ", "D", "o", "c", "k", "e", "r", " ", "H", "u", "b">>
ErrorRetrieving == <<"e", "r", "r", "o", "r", " ", "r", "e", "t", "r", "i", "e", "v", "i", "n", "g", " ", "e", "n", "v", "i", "r", "o", "n", "m", "e", "n", "t", " ", "v", "a", "r", "i", "a", "b", "l", "e", "s", ":", " ">>
BuildingAndPushing == <<"b", "u", "i", "l", "d", "i", "n", "g", " ", "a", "n", "d", " ", "p", "u", "s", "h", "i", "n", "g", " ", "i", "m", "a", "g", "e">>
SuccessLine == <<"s", "u", "c", "c", "e", "s", "s", "!">>
PlusSpace == <<"+", " ">>
Space == <<" ">>
Slash == <<"/">>
Dot == <<".">>
Quote == <<"'">>
docker == <<"d", "o", "c", "k", "e", "r">>
login == <<"l", "o", "g", "i", "n">>
DashUEq == <<"-", "u", "=">>
PasswordStdin == <<"-", "-", "p", "a", "s", "s", "w", "o", "r", "d", "-", "s", "t", "d", "i", "n">>
buildx == <<"b", "u", "i", "l", "d", "x">>
build == <<"b", "u", "i", "l", "d">>
DashPush == <<"-", "-", "p", "u", "s", "h">>
DashT == <<"-", "t">>
DashPlatform == <<"-", "-", "p", "l", "a", "t", "f", "o", "r", "m">>
Dash == <<"-">>
DOCKER_USERNAME == <<"D", "O", "C", "K", "E", "R", "_", "U", "S", "E", "R", "N", "A", "M", "E">>
DOCKER_PASSWORD == <<"D", "O", "C", "K", "E", "R", "_", "P", "A", "S", "S", "W", "O", "R", "D">>

(* ---- sample inputs ---- *)
RefsHeadsPrefix == <<"r", "e", "f", "s", "/", "h", "e", "a", "d", "s", "/">>
RefsTagPrefix == <<"r", "e", "f", "s", "/", "t", "a", "g", "/">>
TagsPrefix == <<"t", "a", "g", "s", "/">>
RefsTagsNoSlash == <<"r", "e", "f", "s", "/", "t", "a", "g", "s">>
Ref123 == <<"r", "e", "f", "s", "/", "t", "a", "g", "s", "/", "1", ".", "2", ".", "3">>
RefBeta == <<"r", "e", "f", "s", "/", "t", "a", "g", "s", "/", "2", ".", "0", ".", "0", "-", "b", "e", "t", "a", ".", "1">>
RefMain == <<"r", "e", "f", "s", "/", "h", "e", "a", "d", "s", "/", "m", "a", "i", "n">>
RefV1 == <<"r", "e", "f", "s", "/", "t", "a", "g", "s", "/", "v", "1">>
OrgApp == <<"o", "r", "g", "/", "a", "p", "p">>
OtherApp == <<"a", "c", "m", "e", "/", "d", "b">>
Amd64 == <<"l", "i", "n", "u", "x", "/", "a", "m", "d", "6", "4">>
Amd64Arm64 == <<"l", "i", "n", "u", "x", "/", "a", "m", "d", "6", "4", ",", "l", "i", "n", "u", "x", "/", "a", "r", "m", "6", "4">>
Bob == <<"b", "o", "b">>
Secret == <<"X", "Y">>
DockerfilePath == <<"D", "o", "c", "k", "e", "r", "f", "i", "l", "e">>

(* ---- Python built-ins used by the program ---- *)

\* str.startswith(prefix)
startswith(s, prefix) ==
    /\ Len(s) >= Len(prefix)
    /\ SubSeq(s, 1, Len(prefix)) = prefix

\* index of the first occurrence of the one-character separator, 0 if none
find(s, sep) ==
    IF \E i \in 1..Len(s) : <<s[i]>> = sep
    THEN CHOOSE i \in 1..Len(s) :
            /\ <<s[i]>> = sep
            /\ \A j \in 1..(i - 1) : <<s[j]>> # sep
    ELSE 0

\* str.split(sep, maxsplit) for a one-character sep; maxsplit = -1 is unlimited
RECURSIVE split(_, _, _)
split(s, sep, maxsplit) ==
    IF maxsplit = 0 \/ find(s, sep) = 0
    THEN <<s>>
    ELSE <<SubSeq(s, 1, find(s, sep) - 1)>>
            \o split(SubSeq(s, find(s, sep) + 1, Len(s)), sep, maxsplit - 1)

\* sep.join(parts)
RECURSIVE join(_, _)
join(sep, parts) ==
    IF Len(parts) = 0 THEN <<>>
    ELSE IF Len(parts) = 1 THEN parts[1]
    ELSE parts[1] \o sep \o join(sep, Tail(parts))

\* lambda vlist, v: vlist + [v]
vlist_plus(vlist, v) == vlist \o <<v>>

\* itertools.accumulate(iterable, vlist_plus, initial=initial): initial first,
\* then each running result
RECURSIVE accumulate(_, _)
accumulate(iterable, initial) ==
    IF Len(iterable) = 0 THEN <<initial>>
    ELSE <<initial>> \o accumulate(Tail(iterable), vlist_plus(initial, Head(iterable)))

\* [".".join(vc) for vc in vcs]
dot_joined(vcs) == [i \in 1..Len(vcs) |-> join(Dot, vcs[i])]

(* ---- calculate_tags ---- *)

NonEmpty(vc) == Len(vc) > 0

\* variant: ref.split("/")[2], the split not limited to two separators
version_components_unlimited(ref) == split(split(ref, Slash, -1)[3], Dot, -1)

\* the version components: ref.split("/", 2)[2].split(".")
version_components(ref) == split(split(ref, Slash, 2)[3], Dot, -1)

\* variant: any ref with two separators is parsed, tag ref or not
calculate_tags_any_ref(ref) ==
    IF Len(split(ref, Slash, 2)) = 3
    THEN <<latest>> \o
         dot_joined(SelectSeq(accumulate(version_components(ref), <<>>), NonEmpty))
    ELSE <<latest>>

calculate_tags(ref) ==
    IF startswith(ref, RefsTagsPrefix)
    THEN <<latest>> \o
         dot_joined(SelectSeq(accumulate(version_components(ref), <<>>), NonEmpty))
    ELSE <<latest>>

(* ---- docker_build, docker_login, run ---- *)

\* variant: args = ["-t", tag] overwrites instead of extending
tag_args_last_only(ts) ==
    IF Len(ts) = 0 THEN <<>> ELSE <<DashT, ts[Len(ts)]>>

RECURSIVE tag_args(_)
tag_args(ts) ==
    IF Len(ts) = 0 THEN <<>> ELSE <<DashT, Head(ts)>> \o tag_args(Tail(ts))

\* variant: the platform option is dropped
docker_build_no_platform(dockerfile, platform, image, ts) ==
    [args  |-> <<docker, buildx, build, DashPush>> \o tag_args(ts) \o <<Dash>>,
     stdin |-> [kind |-> "file", data |-> dockerfile]]

\* the command docker_build hands to run, with the stream it passes as stdin
docker_build(dockerfile, platform, image, ts) ==
    [args  |-> <<docker, buildx, build, DashPush>>
                 \o tag_args(ts)
                 \o (IF platform # None THEN <<DashPlatform, Value(platform)>> ELSE <<>>)
                 \o <<Dash>>,
     stdin |-> [kind |-> "file", data |-> dockerfile]]

\* variant: the password is passed as an option
docker_login_password_arg(username, password) ==
    [args  |-> <<docker, login, DashUEq \o username, <<"-", "p", "=">> \o password>>,
     stdin |-> [kind |-> "input", data |-> <<>>]]

\* the command docker_login hands to run, with the text it passes as input
docker_login(username, password) ==
    [args  |-> <<docker, login, DashUEq \o username, PasswordStdin>>,
     stdin |-> [kind |-> "input", data |-> password]]

PrintEv(line) == [kind |-> "print", line |-> line]
ExecEv(cmd, rc) == [kind |-> "exec", args |-> cmd.args, stdin |-> cmd.stdin, rc |-> rc]

\* variant: the command line is printed after the command has run
run_echo_after(cmd, rc) == <<ExecEv(cmd, rc), PrintEv(PlusSpace \o join(Space, cmd.args))>>

\* run: echo the command line, then execute it; rc is the exit status
run(cmd, rc) == <<PrintEv(PlusSpace \o join(Space, cmd.args)), ExecEv(cmd, rc)>>

\* variant: check=False
run_raises_never(rc) == FALSE

\* subprocess.run(..., check=True) raises CalledProcessError on a non-zero exit
run_raises(rc) == rc # 0

NoDetail == <<>>
Exception(type, key, cmd, rc) == [type |-> type, key |-> key, cmd |-> cmd, returncode |-> rc]
AttributeError == Exception("AttributeError", NoDetail, NoDetail, 0)
KeyError(key) == Exception("KeyError", key, NoDetail, 0)
FileNotFoundError == Exception("FileNotFoundError", NoDetail, NoDetail, 0)
CalledProcessError(cmd, rc) == Exception("CalledProcessError", NoDetail, cmd.args, rc)

\* str(KeyError(key)) is the repr of the key
KeyErrorStr(key) == Quote \o key \o Quote

(* ---- inputs ---- *)

ExitCodes == 0..MaxExit

Alphabet == {"1", "v", ".", "/"}
RECURSIVE StringsUpTo(_)
StringsUpTo(n) ==
    IF n = 0 THEN {<<>>}
    ELSE StringsUpTo(n - 1) \cup
         {Append(s, c) : s \in {t \in StringsUpTo(n - 1) : Len(t) = n - 1}, c \in Alphabet}

RefPrefixes == {RefsTagsPrefix, RefsHeadsPrefix, RefsTagPrefix, TagsPrefix, RefsTagsNoSlash, <<>>}
Refs == {p \o s : p \in RefPrefixes, s \in StringsUpTo(MaxLen)}
           \cup {Ref123, RefBeta, RefMain, RefV1}
EnvRefs == {RefMain, Ref123}
Images == {OrgApp, OtherApp}
Platforms == {Amd64, Amd64Arm64}
Usernames == {Bob}
Passwords == {Secret}

Optional(S) == {None} \cup {Some(v) : v \in S}

(* ---- the program ---- *)

\* the process starts with its command line and environment; --dockerfile and
\* --image are required options, --platform and --ref are optional
Init ==
    /\ pc = "parse_args"
    /\ argv \in [dockerfile : {DockerfilePath}, image : Images,
                 platform : Optional(Platforms), ref : Optional(Refs)]
    /\ environ \in [GITHUB_REF : Optional(EnvRefs),
                    DOCKER_USERNAME : Optional(Usernames),
                    DOCKER_PASSWORD : Optional(Passwords)]
    /\ fileExists \in BOOLEAN
    /\ args = None
    /\ tags = None
    /\ trace = <<>>
    /\ exc = None

\* parser.parse_args(): --ref defaults to os.environ.get("GITHUB_REF")
main_parse_args ==
    /\ pc = "parse_args"
    /\ args' = Some([dockerfile |-> argv.dockerfile,
                     image      |-> argv.image,
                     platform   |-> argv.platform,
                     ref        |-> IF argv.ref # None THEN argv.ref
                                    ELSE environ.GITHUB_REF])
    /\ pc' = "calculate_tags"
    /\ UNCHANGED <<argv, environ, fileExists, tags, trace, exc>>

\* variant: calculate_tags(args.ref or "")
main_calculate_tags_default ==
    /\ pc = "calculate_tags"
    /\ tags' = Some(calculate_tags(IF Value(args).ref = None THEN <<>>
                                   ELSE Value(Value(args).ref)))
    /\ pc' = "print_tags"
    /\ UNCHANGED <<argv, environ, fileExists, args, trace, exc>>

\* tags = calculate_tags(args.ref); None has no startswith
main_calculate_tags ==
    /\ pc = "calculate_tags"
    /\ IF Value(args).ref = None
       THEN /\ exc' = Some(AttributeError)
            /\ pc' = "failed"
            /\ UNCHANGED tags
       ELSE /\ tags' = Some(calculate_tags(Value(Value(args).ref)))
            /\ pc' = "print_tags"
            /\ UNCHANGED exc
    /\ UNCHANGED <<argv, environ, fileExists, args, trace>>

\* print(f"will push tags: {', '.join(tags)}")
main_print_tags ==
    /\ pc = "print_tags"
    /\ trace' = Append(trace, PrintEv(WillPushTags \o join(CommaSpace, Value(tags))))
    /\ pc' = "login"
    /\ UNCHANGED <<argv, environ, fileExists, args, tags, exc>>

\* variant: os.environ.get(key, "") in place of os.environ[key]
main_login_environ_get ==
    /\ pc = "login"
    /\ \E rc \in ExitCodes :
          LET get(o) == IF o = None THEN <<>> ELSE Value(o)
              cmd == docker_login(get(environ.DOCKER_USERNAME), get(environ.DOCKER_PASSWORD))
          IN  /\ trace' = Append(trace, PrintEv(LoggingIn)) \o run(cmd, rc)
              /\ IF run_raises(rc)
                 THEN /\ exc' = Some(CalledProcessError(cmd, rc))
                      /\ pc' = "failed"
                 ELSE /\ pc' = "build"
                      /\ UNCHANGED exc
    /\ UNCHANGED <<argv, environ, fileExists, args, tags>>

\* print("logging into Docker Hub"); try: docker_login(os.environ[...], os.environ[...])
\* except KeyError: print the error and re-raise
main_login ==
    /\ pc = "login"
    /\ LET t == Append(trace, PrintEv(LoggingIn))
           missing ==
               IF environ.DOCKER_USERNAME = None THEN Some(DOCKER_USERNAME)
               ELSE IF environ.DOCKER_PASSWORD = None THEN Some(DOCKER_PASSWORD)
               ELSE None
       IN  IF missing # None
           THEN /\ trace' = Append(t, PrintEv(ErrorRetrieving \o KeyErrorStr(Value(missing))))
                /\ exc' = Some(KeyError(Value(missing)))
                /\ pc' = "failed"
           ELSE \E rc \in ExitCodes :
                  LET cmd == docker_login(Value(environ.DOCKER_USERNAME),
                                          Value(environ.DOCKER_PASSWORD))
                  IN  /\ trace' = t \o run(cmd, rc)
                      /\ IF run_raises(rc)
                         THEN /\ exc' = Some(CalledProcessError(cmd, rc))
                              /\ pc' = "failed"
                         ELSE /\ pc' = "build"
                              /\ UNCHANGED exc
    /\ UNCHANGED <<argv, environ, fileExists, args, tags>>

\* print("building and pushing image");
\* docker_build(open(args.dockerfile, "rb"), args.platform, args.image, tags)
main_build ==
    /\ pc = "build"
    /\ LET t == Append(trace, PrintEv(BuildingAndPushing))
       IN  IF ~fileExists
           THEN /\ trace' = t
                /\ exc' = Some(FileNotFoundError)
                /\ pc' = "failed"
           ELSE \E rc \in ExitCodes :
                  LET cmd == docker_build(Value(args).dockerfile, Value(args).platform,
                                          Value(args).image, Value(tags))
                  IN  /\ trace' = t \o run(cmd, rc)
                      /\ IF run_raises(rc)
                         THEN /\ exc' = Some(CalledProcessError(cmd, rc))
                              /\ pc' = "failed"
                         ELSE /\ pc' = "success"
                              /\ UNCHANGED exc
    /\ UNCHANGED <<argv, environ, fileExists, args, tags>>

\* print("success!")
main_success ==
    /\ pc = "success"
    /\ trace' = Append(trace, PrintEv(SuccessLine))
    /\ pc' = "done"
    /\ UNCHANGED <<argv, environ, fileExists, args, tags, exc>>

Next ==
    \/ main_parse_args
    \/ main_calculate_tags
    \/ main_print_tags
    \/ main_login
    \/ main_build
    \/ main_success

Spec == Init /\ [][Next]_vars

TypeOK ==
    /\ pc \in {"parse_args", "calculate_tags", "print_tags", "login", "build",
               "success", "done", "failed"}
    /\ Len(exc) <= 1
    /\ (pc = "failed") <=> (exc # None)

(* ---- vocabulary of the properties ---- *)

Halted == pc \in {"done", "failed"}
TheRef == Value(Value(args).ref)
RefKnown == args # None /\ Value(args).ref # None

ExecIdx == {i \in 1..Len(trace) : trace[i].kind = "exec"}
PrintIdx == {i \in 1..Len(trace) : trace[i].kind = "print"}
LoginIdx == {i \in ExecIdx : trace[i].args[2] = login}
BuildIdx == {i \in ExecIdx : trace[i].args[2] = buildx}
SuccessIdx == {i \in PrintIdx : trace[i].line = SuccessLine}

\* sub occurs in s as a contiguous run of characters
Contains(s, sub) ==
    \E i \in 1..(Len(s) - Len(sub) + 1) : SubSeq(s, i, i + Len(sub) - 1) = sub

\* the ref begins with r, e, f, s, /, t, a, g, s, /
HasTagPrefix(ref) ==
    /\ Len(ref) >= Len(RefsTagsPrefix)
    /\ \A i \in 1..Len(RefsTagsPrefix) : ref[i] = RefsTagsPrefix[i]

\* what follows the prefix, the positions of its dots, and the text before
\* its k-th dot (all of it when there is no k-th dot)
Remainder(ref) == SubSeq(ref, Len(RefsTagsPrefix) + 1, Len(ref))
DotPos(r) == {i \in 1..Len(r) : r[i] = "."}
KthDot(r, k) == CHOOSE i \in DotPos(r) : Cardinality({j \in DotPos(r) : j < i}) = k - 1
UpToComponent(r, k) ==
    IF k = Cardinality(DotPos(r)) + 1 THEN r ELSE SubSeq(r, 1, KthDot(r, k) - 1)

\* the values of the -t options of a build command line, read left to right
RECURSIVE TagOptions(_)
TagOptions(a) ==
    IF Len(a) < 2 THEN <<>>
    ELSE IF a[1] = DashT THEN <<a[2]>> \o TagOptions(SubSeq(a, 3, Len(a)))
    ELSE IF a[1] = DashPlatform THEN TagOptions(SubSeq(a, 3, Len(a)))
    ELSE TagOptions(Tail(a))

\* the values of the --platform options of a build command line
RECURSIVE PlatformOptions(_)
PlatformOptions(a) ==
    IF Len(a) < 2 THEN <<>>
    ELSE IF a[1] = DashPlatform THEN <<a[2]>> \o PlatformOptions(SubSeq(a, 3, Len(a)))
    ELSE IF a[1] = DashT THEN PlatformOptions(SubSeq(a, 3, Len(a)))
    ELSE PlatformOptions(Tail(a))

CredentialMissing == environ.DOCKER_USERNAME = None \/ environ.DOCKER_PASSWORD = None

\* a printed line names an environment variable that is in fact unset
ReportsMissingVariable ==
    \E i \in PrintIdx :
        \/ environ.DOCKER_USERNAME = None /\ Contains(trace[i].line, DOCKER_USERNAME)
        \/ environ.DOCKER_PASSWORD = None /\ Contains(trace[i].line, DOCKER_PASSWORD)

\* the tags expected of the sample refs
T2 == <<"2">>
T20 == <<"2", ".", "0">>
T200beta == <<"2", ".", "0", ".", "0", "-", "b", "e", "t", "a">>
T200beta1 == <<"2", ".", "0", ".", "0", "-", "b", "e", "t", "a", ".", "1">>
T1 == <<"1">>
T12 == <<"1", ".", "2">>
T123 == <<"1", ".", "2", ".", "3">>

(* ---- properties ---- *)

\* C1: a ref that does not begin with refs/tags/ (a branch ref, the empty
\* string, malformed input) derives exactly the one-element sequence [latest].
C1_NonTagRefGivesLatest ==
    (tags # None /\ ~HasTagPrefix(TheRef)) => Value(tags) = <<latest>>

\* C1 case: the near-miss ref refs/tags.1 has been derived to [latest]
C1_Witness ==
    /\ tags = Some(<<latest>>)
    /\ TheRef = RefsTagsNoSlash \o <<".", "1">>

\* C2: a ref that begins with refs/tags/, whose remainder has components
\* c1..cn between dots, derives n+1 tags: latest, then for k = 1..n the text of
\* the remainder up to the end of component k; refs/tags/1.2.3 gives
\* [latest, 1, 1.2, 1.2.3] and refs/tags/ gives [latest, ""].
C2_TagRefGivesPrefixes ==
    (tags # None /\ HasTagPrefix(TheRef)) =>
        LET r == Remainder(TheRef)
            n == Cardinality(DotPos(r)) + 1
        IN  /\ Len(Value(tags)) = n + 1
            /\ Value(tags)[1] = latest
            /\ \A k \in 1..n : Value(tags)[k + 1] = UpToComponent(r, k)
            /\ (TheRef = Ref123 => Value(tags) = <<latest, T1, T12, T123>>)
            /\ (TheRef = RefsTagsPrefix => Value(tags) = <<latest, <<>>>>)

\* C2 case: refs/tags/1.2.3 has been derived to its four tags
C2_Witness ==
    /\ tags = Some(<<latest, T1, T12, T123>>)
    /\ TheRef = Ref123

\* the end-to-end scenario of C3, run to completion
C3_Scenario ==
    /\ pc = "done"
    /\ Value(args).ref = Some(RefBeta)
    /\ Value(args).image = OrgApp
    /\ Value(args).platform = Some(Amd64Arm64)
    /\ ~CredentialMissing

\* the calls of the scenario: one login, then one build carrying ts
C3_Calls(ts) ==
    /\ Cardinality(ExecIdx) = 2
    /\ Cardinality(LoginIdx) = 1
    /\ Cardinality(BuildIdx) = 1
    /\ \A i \in LoginIdx, j \in BuildIdx :
        /\ i < j
        /\ trace[i].stdin = [kind |-> "input", data |-> Value(environ.DOCKER_PASSWORD)]
        /\ TagOptions(trace[j].args) = ts
        /\ PlatformOptions(trace[j].args) = <<Amd64Arm64>>
        /\ trace[j].args[Len(trace[j].args)] = Dash
        /\ trace[j].stdin = [kind |-> "file", data |-> Value(args).dockerfile]

\* C3 (as amended): in the end-to-end run with ref refs/tags/2.0.0-beta.1,
\* image org/app, platform linux/amd64,linux/arm64 and both credentials set,
\* one login call is followed by exactly one build invocation whose tags are
\* latest, 2, 2.0, 2.0.0-beta, 2.0.0-beta.1, with both platforms passed and
\* the Dockerfile on standard input.
C3_EndToEnd ==
    C3_Scenario => C3_Calls(<<latest, T2, T20, T200beta, T200beta1>>)

\* C3 (as stated): the same run tags exactly latest, 2, 2.0.0-beta, 2.0.0-beta.1
C3_EndToEnd_AsStated ==
    C3_Scenario => C3_Calls(<<latest, T2, T200beta, T200beta1>>)

\* C3 case: the scenario has run to completion
C3_Witness == C3_Scenario /\ Cardinality(BuildIdx) = 1

\* what C4 promises of a run with a credential unset: no external command, no
\* success confirmation, and a halted run has failed
C4_NothingAttempted ==
    /\ ExecIdx = {}
    /\ SuccessIdx = {}
    /\ pc # "done"

C5_PipelineOrder ==
    /\ \A j \in BuildIdx : \E i \in LoginIdx : i < j /\ trace[i].rc = 0
    /\ \A k \in SuccessIdx : \E j \in BuildIdx : j < k /\ trace[j].rc = 0
    /\ \A i \in ExecIdx : trace[i].rc # 0 =>
          /\ i = Len(trace)
          /\ pc = "failed"
          /\ Value(exc).type = "CalledProcessError"
    /\ Cardinality(LoginIdx) <= 1
    /\ Cardinality(BuildIdx) <= 1
    /\ Cardinality(SuccessIdx) <= 1
    /\ (pc = "done") <=> (SuccessIdx # {})

\* C5 case: the login succeeded and the build exited non-zero
C5_Witness ==
    /\ pc = "failed"
    /\ \E i \in LoginIdx : trace[i].rc = 0
    /\ \E j \in BuildIdx : trace[j].rc # 0

\* C6: the password reaches the login command on its standard input only: it
\* is no element of, and occurs in no element of, the argument list of any
\* invoked command, and it occurs in no printed line and in no error raised.
C6_PasswordOnlyOnStdin ==
    environ.DOCKER_PASSWORD # None =>
        LET password == Value(environ.DOCKER_PASSWORD)
        IN  /\ \A i \in ExecIdx : \A k \in 1..Len(trace[i].args) :
                  ~Contains(trace[i].args[k], password)
            /\ \A i \in PrintIdx : ~Contains(trace[i].line, password)
            /\ \A i \in LoginIdx : trace[i].stdin = [kind |-> "input", data |-> password]
            /\ \A i \in BuildIdx : trace[i].stdin.kind = "file"
            /\ exc # None =>
                  /\ ~Contains(Value(exc).key, password)
                  /\ \A k \in 1..Len(Value(exc).cmd) : ~Contains(Value(exc).cmd[k], password)

\* C6 case: the login command has run with the password on its standard input
C6_Witness ==
    /\ environ.DOCKER_PASSWORD # None
    /\ \E i \in LoginIdx : trace[i].stdin.data = Value(environ.DOCKER_PASSWORD)
    /\ pc = "done"

\* every command is preceded by the echo of its command line
C7_EchoedBefore ==
    \A i \in ExecIdx :
        /\ i > 1
        /\ trace[i - 1] = PrintEv(<<"+", " ">> \o join(<<" ">>, trace[i].args))

\* C7 (as amended): every external command is echoed before it is executed;
\* no echoed line contains the password, and the echo of the login command
\* contains the username (as -u=<username>).
C7_EchoWithoutPassword ==
    /\ C7_EchoedBefore
    /\ \A i \in ExecIdx :
        /\ environ.DOCKER_PASSWORD # None =>
              ~Contains(trace[i - 1].line, Value(environ.DOCKER_PASSWORD))
        /\ i \in LoginIdx =>
              Contains(trace[i - 1].line, DashUEq \o Value(environ.DOCKER_USERNAME))

\* C7 (as stated): the echoed line contains neither the username nor the password
C7_EchoWithoutCredentials ==
    /\ C7_EchoedBefore
    /\ \A i \in ExecIdx :
        /\ environ.DOCKER_PASSWORD # None =>
              ~Contains(trace[i - 1].line, Value(environ.DOCKER_PASSWORD))
        /\ environ.DOCKER_USERNAME # None =>
              ~Contains(trace[i - 1].line, Value(environ.DOCKER_USERNAME))

\* C7 case: both commands have been echoed and run
C7_Witness == LoginIdx # {} /\ BuildIdx # {}

\* C8: the build command line carries the image reference: a run that
\* differs only in --image issues a different build command line.
C8_ImageDeterminesBuild ==
    \A j \in BuildIdx : \A other \in Images \ {Value(args).image} :
        docker_build(Value(args).dockerfile, Value(args).platform, other, Value(tags)).args
            # trace[j].args

\* C9: at most one build invocation; its command line is docker buildx build
\* --push, one -t entry per tag in sequence order, --platform <spec> if and
\* only if a platform was given, and - last; the Dockerfile is its standard
\* input.
C9_SingleBuildInvocation ==
    /\ Cardinality(BuildIdx) <= 1
    /\ \A j \in BuildIdx :
        LET a == trace[j].args
            ts == Value(tags)
            n == Len(ts)
            given == Value(args).platform # None
        IN  /\ Len(a) = 4 + 2 * n + (IF given THEN 2 ELSE 0) + 1
            /\ SubSeq(a, 1, 4) = <<docker, buildx, build, DashPush>>
            /\ \A k \in 1..n : a[4 + 2 * k - 1] = DashT /\ a[4 + 2 * k] = ts[k]
            /\ TagOptions(a) = ts
            /\ given => SubSeq(a, 4 + 2 * n + 1, 4 + 2 * n + 2)
                            = <<DashPlatform, Value(Value(args).platform)>>
            /\ PlatformOptions(a) = Value(args).platform
            /\ a[Len(a)] = Dash
            /\ trace[j].stdin = [kind |-> "file", data |-> Value(args).dockerfile]

\* C9 case: a build without a platform has carried three tags
C9_Witness ==
    \E j \in BuildIdx :
        /\ Value(args).platform = None
        /\ Len(TagOptions(trace[j].args)) = 3

\* C10: with no --ref option and GITHUB_REF unset, the ref handed to
\* calculate_tags is absent, the derivation fails, and the run aborts with
\* nothing printed and no external command invoked.
C10_AbsentRefAborts ==
    (argv.ref = None /\ environ.GITHUB_REF = None) =>
        /\ args # None => Value(args).ref = None
        /\ tags = None
        /\ trace = <<>>
        /\ pc \in {"parse_args", "calculate_tags", "failed"}
        /\ pc = "failed" => Value(exc).type = "AttributeError"

\* C10 case: the run without a ref has aborted
C10_Witness ==
    /\ argv.ref = None
    /\ environ.GITHUB_REF = None
    /\ pc = "failed"
    /\ trace = <<>>


====
